---- MODULE Spec2Model ----
(***************************************************************************)
(* PerCom, python/app: a FastAPI application over an in-memory PostStorage *)
(* (a dict from post id to PostModel).  The handlers of main.py are plain  *)
(* `def` functions, which FastAPI runs on worker threads: the steps of two *)
(* requests interleave between the dict operations of storage.py.          *)
(*                                                                         *)
(* Granularity.  One action is one access to the shared dict together with *)
(* the thread-local work before it (request validation, uuid4, building    *)
(* the PostModel) and after it (building the response).  Thread-local work *)
(* commutes with every step of the other threads.                          *)
(*                                                                         *)
(* Abstractions.  A dict is a function; list(dict.values()) is the set of  *)
(* its values (the order of the list is not modelled).  An id is a natural *)
(* number standing for the string str(uuid4()).  uuid4() returns a value   *)
(* it has not returned before (the library's 122 random bits).             *)
(***************************************************************************)
EXTENDS Naturals, Sequences, FiniteSets, TLC

\* Size of the universe of ids (values uuid4 can return, and path parameters).
MaxIds == 2

Ids == 1..MaxIds

\* The worker threads serving requests.
Threads == {"t1", "t2"}

----------------------------------------------------------------------------
\* JSON values of a request body, before validation.

Str(s) == [type |-> "string", val |-> s]
Missing == [type |-> "missing", val |-> ""]
Array == [type |-> "array", val |-> ""]

NoBody == [author |-> Missing, date |-> Missing, content |-> Missing]

\* Bodies whose three fields are JSON strings and whose date is a timestamp.
GoodBodies ==
    { [author |-> Str("Alice"), date |-> Str("2024-01-01T00:00:00Z"), content |-> Str("hello")],
      [author |-> Str(""),      date |-> Str("2024-02-02T00:00:00Z"), content |-> Str("bye")] }

\* Malformed bodies: a missing field, an unparseable date, a wrong-typed field.
BadBodies ==
    { [author |-> Missing,      date |-> Str("2024-01-01T00:00:00Z"), content |-> Str("hello")],
      [author |-> Str("Alice"), date |-> Str("yesterday"),            content |-> Str("hello")],
      [author |-> Str("Bob"),   date |-> Str("2024-02-02T00:00:00Z"), content |-> Array] }

Bodies == GoodBodies \cup BadBodies

\* datetime values: <<year, month, day, hour, minute, second>>; <<>> is no datetime.
NoDatetime == <<>>

\* pydantic's parse of a `datetime` field from a JSON string.
ParseDatetime(s) ==
    CASE s = "2024-01-01T00:00:00Z" -> <<2024, 1, 1, 0, 0, 0>>
      [] s = "2024-02-02T00:00:00Z" -> <<2024, 2, 2, 0, 0, 0>>
      [] OTHER -> NoDatetime

\* PostInput without the parse of the date.
PostInput_nodate(body) ==
    IF body.author.type = "string" /\ body.content.type = "string"
    THEN [ok |-> TRUE, author |-> body.author.val,
          date |-> ParseDatetime(body.date.val), content |-> body.content.val]
    ELSE [ok |-> FALSE, author |-> "", date |-> NoDatetime, content |-> ""]

\* PostInput without the type check of author and content.
PostInput_notypes(body) ==
    IF body.date.type = "string" /\ ParseDatetime(body.date.val) # NoDatetime
    THEN [ok |-> TRUE, author |-> body.author.val,
          date |-> ParseDatetime(body.date.val), content |-> body.content.val]
    ELSE [ok |-> FALSE, author |-> "", date |-> NoDatetime, content |-> ""]

\* schemas.PostInput: author: str, date: datetime, content: str.
\* ok is FALSE when pydantic raises a validation error.
PostInput(body) ==
    IF /\ body.author.type = "string"
       /\ body.date.type = "string"
       /\ ParseDatetime(body.date.val) # NoDatetime
       /\ body.content.type = "string"
    THEN [ok |-> TRUE, author |-> body.author.val,
          date |-> ParseDatetime(body.date.val), content |-> body.content.val]
    ELSE [ok |-> FALSE, author |-> "", date |-> NoDatetime, content |-> ""]

\* PostModel with author and content passed in each other's place.
PostModel_swapped(id, author, date, content) ==
    [id |-> id, author |-> content, date |-> date, content |-> author]

\* PostModel that leaves the id at a default.
PostModel_noid(id, author, date, content) ==
    [id |-> 0, author |-> author, date |-> date, content |-> content]

\* models.PostModel: the dataclass constructor.
PostModel(id, author, date, content) ==
    [id |-> id, author |-> author, date |-> date, content |-> content]

NoPost == [id |-> 0, author |-> "", date |-> NoDatetime, content |-> ""]

\* schemas.Post, as response_model: the four fields read from the returned object.
Post(p) == [id |-> p.id, author |-> p.author, date |-> p.date, content |-> p.content]

----------------------------------------------------------------------------
\* storage.PostStorage: the operations on the dict _posts.

\* list(self._posts.values())
list_posts(P) == { P[k] : k \in DOMAIN P }

\* A lookup that never finds the key.
get_post_none(P, post_id) == NoPost

\* self._posts.get(post_id); NoPost is None
get_post(P, post_id) == IF post_id \in DOMAIN P THEN P[post_id] ELSE NoPost

\* An assignment that, for a key already present, replaces the author only.
setitem_merge(P, key, post) ==
    [k \in DOMAIN P \cup {key} |->
        IF k # key THEN P[k]
        ELSE IF key \in DOMAIN P THEN [P[key] EXCEPT !.author = post.author]
        ELSE post]

\* An assignment that rebuilds the dict with the one item.
setitem_only(P, key, post) == [k \in {key} |-> post]

\* self._posts[key] = post
setitem(P, key, post) == [k \in DOMAIN P \cup {key} |-> IF k = key THEN post ELSE P[k]]

\* A pop that leaves the key in the dict.
pop_keep(P, post_id) == P

\* self._posts.pop(post_id, None): the dict afterwards
pop(P, post_id) == [k \in DOMAIN P \ {post_id} |-> P[k]]

\* The return value negated: pop(...) is None.
delete_post_negated(P, post_id) == post_id \notin DOMAIN P

\* delete_post's return value: pop(...) is not None
delete_post(P, post_id) == post_id \in DOMAIN P

\* A membership test that always succeeds.
contains_always(P, post_id) == TRUE

\* post_id in self._posts
contains(P, post_id) == post_id \in DOMAIN P

\* An id generator that can repeat a value.
uuid4_any(returned) == Ids

\* The values uuid4() can return, given those it has returned.
uuid4(returned) == Ids \ returned

----------------------------------------------------------------------------
VARIABLES
    posts,      \* storage._posts
    issued,     \* the values uuid4() has returned
    pc,         \* pc[t]: where thread t is in its handler
    local,      \* local[t]: the id (path parameter or new_id), request body and
                \* PostModel of the call thread t is in
    last,       \* the operation that completed last: its request and response
    creates,    \* the number of Create calls that have returned a post
    created,    \* the ids returned by the Create calls
    deleted,    \* the ids whose Delete returned success
    written     \* written[id]: the call that wrote the record now under id

vars == <<posts, issued, pc, local, last, creates, created, deleted, written>>

NoLocal == [id |-> 0, body |-> NoBody, present |-> FALSE, post |-> NoPost]
NoWrite == [by |-> "none", body |-> NoBody, ret |-> NoPost]

\* The entry of the dict P under key k; NoPost when there is none.
Entry(P, k) == IF k \in DOMAIN P THEN P[k] ELSE NoPost

\* What a request sent: no body, a well-formed body or a malformed one.
InputKind(body) ==
    IF body \in GoodBodies THEN "good" ELSE IF body \in BadBodies THEN "bad" ELSE "none"

\* A completed operation.  Request: op, the id in the path (for a create: the
\* id in the response; 0 when there is none), the kind of its body, whether
\* the id was in the store when the operation looked at it (FALSE when it did
\* not).  Response: HTTP status, the post or the list returned.  changed: the
\* completing step changed the store.  afterDelete: the operation completed
\* just before it was a successful Delete of the same id.
Done(op, id, body, present, status, post, list) ==
    [op |-> op, id |-> id, input |-> InputKind(body), present |-> present,
     status |-> status, post |-> post, list |-> list,
     changed |-> (posts' # posts),
     afterDelete |-> (last.op = "delete" /\ last.status = 204 /\ last.id = id)]

Init ==
    /\ posts = <<>>
    /\ issued = {}
    /\ pc = [t \in Threads |-> "idle"]
    /\ local = [t \in Threads |-> NoLocal]
    /\ last = [op |-> "none", id |-> 0, input |-> "none", present |-> FALSE,
               status |-> 0, post |-> NoPost, list |-> {}, changed |-> FALSE,
               afterDelete |-> FALSE]
    /\ creates = 0
    /\ created = {}
    /\ deleted = {}
    /\ written = [id \in Ids |-> NoWrite]

----------------------------------------------------------------------------
\* main.list_posts: GET /posts
ListPosts(t) ==
    /\ pc[t] = "idle"
    /\ posts' = posts
    /\ last' = Done("list", 0, NoBody, FALSE, 200, NoPost,
                    { Post(p) : p \in list_posts(posts) })
    /\ UNCHANGED <<issued, pc, local, creates, created, deleted, written>>

\* main.create_post, body rejected by PostInput: FastAPI answers 422 and the
\* handler is not called.
CreatePostInvalid(t, body) ==
    /\ pc[t] = "idle"
    /\ ~PostInput(body).ok
    /\ posts' = posts
    /\ last' = Done("create", 0, body, FALSE, 422, NoPost, {})
    /\ UNCHANGED <<issued, pc, local, creates, created, deleted, written>>

\* main.create_post up to storage.py line 18: new_id = str(uuid4()) and the
\* PostModel are thread-local.
CreatePostNew(t, body) ==
    /\ pc[t] = "idle"
    /\ PostInput(body).ok
    /\ \E new_id \in uuid4(issued) :
         /\ issued' = issued \cup {new_id}
         /\ local' = [local EXCEPT ![t] =
                [id |-> new_id, body |-> body, present |-> FALSE,
                 post |-> PostModel(new_id, PostInput(body).author,
                                    PostInput(body).date, PostInput(body).content)]]
    /\ pc' = [pc EXCEPT ![t] = "create_store"]
    /\ UNCHANGED <<posts, last, creates, created, deleted, written>>

\* storage.py lines 19-20: self._posts[new_id] = post; return post (201).
CreatePostStore(t) ==
    /\ pc[t] = "create_store"
    /\ posts' = setitem(posts, local[t].id, local[t].post)
    /\ last' = Done("create", local[t].id, local[t].body, FALSE, 201,
                    Post(local[t].post), {})
    /\ creates' = creates + 1
    /\ created' = created \cup {local[t].id}
    /\ written' = [written EXCEPT ![local[t].id] =
            [by |-> "create", body |-> local[t].body, ret |-> Post(local[t].post)]]
    /\ pc' = [pc EXCEPT ![t] = "idle"]
    /\ local' = [local EXCEPT ![t] = NoLocal]
    /\ UNCHANGED <<issued, deleted>>

\* main.get_post: GET /posts/{post_id}
GetPost(t, post_id) ==
    /\ pc[t] = "idle"
    /\ posts' = posts
    /\ LET post == get_post(posts, post_id) IN
         last' = IF post = NoPost
                 THEN Done("get", post_id, NoBody, post_id \in DOMAIN posts, 404, NoPost, {})
                 ELSE Done("get", post_id, NoBody, post_id \in DOMAIN posts, 200, Post(post), {})
    /\ UNCHANGED <<issued, pc, local, creates, created, deleted, written>>

\* main.update_post, body rejected by PostInput: 422, the handler is not called.
UpdatePostInvalid(t, post_id, body) ==
    /\ pc[t] = "idle"
    /\ ~PostInput(body).ok
    /\ posts' = posts
    /\ last' = Done("update", post_id, body, post_id \in DOMAIN posts, 422, NoPost, {})
    /\ UNCHANGED <<issued, pc, local, creates, created, deleted, written>>

\* storage.py lines 23-24: post_id not in self._posts, return None (404).
UpdatePostAbsent(t, post_id, body) ==
    /\ pc[t] = "idle"
    /\ PostInput(body).ok
    /\ ~contains(posts, post_id)
    /\ posts' = posts
    /\ last' = Done("update", post_id, body, post_id \in DOMAIN posts, 404, NoPost, {})
    /\ UNCHANGED <<issued, pc, local, creates, created, deleted, written>>

\* storage.py lines 23 and 25: post_id is in self._posts; the PostModel is built.
UpdatePostCheck(t, post_id, body) ==
    /\ pc[t] = "idle"
    /\ PostInput(body).ok
    /\ contains(posts, post_id)
    /\ local' = [local EXCEPT ![t] =
            [id |-> post_id, body |-> body, present |-> post_id \in DOMAIN posts,
             post |-> PostModel(post_id, PostInput(body).author,
                                PostInput(body).date, PostInput(body).content)]]
    /\ pc' = [pc EXCEPT ![t] = "update_store"]
    /\ UNCHANGED <<posts, issued, last, creates, created, deleted, written>>

\* A write that waits until the key is in the dict.
UpdatePostStore_waits(t) ==
    /\ pc[t] = "update_store"
    /\ local[t].id \in DOMAIN posts
    /\ posts' = setitem(posts, local[t].id, local[t].post)
    /\ last' = Done("update", local[t].id, local[t].body, local[t].present, 200,
                    Post(local[t].post), {})
    /\ written' = [written EXCEPT ![local[t].id] =
            [by |-> "update", body |-> local[t].body, ret |-> Post(local[t].post)]]
    /\ pc' = [pc EXCEPT ![t] = "idle"]
    /\ local' = [local EXCEPT ![t] = NoLocal]
    /\ UNCHANGED <<issued, creates, created, deleted>>

\* storage.py lines 26-27: self._posts[post_id] = post; return post (200).
UpdatePostStore(t) ==
    /\ pc[t] = "update_store"
    /\ posts' = setitem(posts, local[t].id, local[t].post)
    /\ last' = Done("update", local[t].id, local[t].body, local[t].present, 200,
                    Post(local[t].post), {})
    /\ written' = [written EXCEPT ![local[t].id] =
            [by |-> "update", body |-> local[t].body, ret |-> Post(local[t].post)]]
    /\ pc' = [pc EXCEPT ![t] = "idle"]
    /\ local' = [local EXCEPT ![t] = NoLocal]
    /\ UNCHANGED <<issued, creates, created, deleted>>

\* main.delete_post: DELETE /posts/{post_id}
DeletePost(t, post_id) ==
    /\ pc[t] = "idle"
    /\ posts' = pop(posts, post_id)
    /\ IF delete_post(posts, post_id)
       THEN /\ last' = Done("delete", post_id, NoBody, post_id \in DOMAIN posts, 204, NoPost, {})
            /\ deleted' = deleted \cup {post_id}
            /\ written' = [written EXCEPT ![post_id] = NoWrite]
       ELSE /\ last' = Done("delete", post_id, NoBody, post_id \in DOMAIN posts, 404, NoPost, {})
            /\ UNCHANGED <<deleted, written>>
    /\ UNCHANGED <<issued, pc, local, creates, created>>

Step(t) ==
    \/ ListPosts(t)
    \/ \E body \in Bodies : CreatePostInvalid(t, body)
    \/ \E body \in Bodies : CreatePostNew(t, body)
    \/ CreatePostStore(t)
    \/ \E post_id \in Ids : GetPost(t, post_id)
    \/ \E post_id \in Ids, body \in Bodies : UpdatePostInvalid(t, post_id, body)
    \/ \E post_id \in Ids, body \in Bodies : UpdatePostAbsent(t, post_id, body)
    \/ \E post_id \in Ids, body \in Bodies : UpdatePostCheck(t, post_id, body)
    \/ UpdatePostStore(t)
    \/ \E post_id \in Ids : DeletePost(t, post_id)

\* Requests served concurrently by the worker threads.
Next == \E t \in Threads : Step(t)

Spec == Init /\ [][Next]_vars

\* One caller: a request starts only when no other is in progress.
SeqNext == \E t \in Threads : (\A u \in Threads \ {t} : pc[u] = "idle") /\ Step(t)

SeqSpec == Init /\ [][SeqNext]_vars

\* The scheduler runs every worker thread that has a step to take: a request
\* between its two steps is eventually given its second one.
Fairness ==
    \A t \in Threads : WF_vars(CreatePostStore(t)) /\ WF_vars(UpdatePostStore(t))

FairSpec == Init /\ [][Next]_vars /\ Fairness

----------------------------------------------------------------------------
\* The fields a well-formed body asks for, as PostModel holds them.
Asked(id, body) ==
    [id |-> id, author |-> body.author.val, date |-> ParseDatetime(body.date.val),
     content |-> body.content.val]

IdsOf(ps) == { p.id : p \in ps }

\* C1: the id a Create returns was returned by no earlier Create, whatever
\* Updates and Deletes ran in between (a deleted post's id is not reassigned):
\* the Creates that have returned have returned as many distinct ids.
C1_IdNeverReassigned == Cardinality(created) = creates

\* C1 witness: a Create has returned after another Create's post was deleted.
C1_Witness ==
    /\ last.op = "create" /\ last.status = 201
    /\ \E id \in created \cap deleted : id # last.id

\* C2: once Delete(id) has returned success the store never again contains id,
\* under any interleaving.
C2_DeleteIsPermanent == \A id \in deleted : id \notin DOMAIN posts

\* C3: with one caller, a Read(id), an Update(id) with a well-formed body and
\* a second Delete(id) that come right after a successful Delete(id) each
\* signal NotFound (404).
C3_DeleteIsTerminal ==
    (/\ last.afterDelete
     /\ \/ last.op \in {"get", "delete"}
        \/ last.op = "update" /\ last.input = "good")
    => last.status = 404

\* C3 witness: an Update answered 404 right after the successful Delete of its id.
C3_Witness == last.afterDelete /\ last.op = "update" /\ last.status = 404

\* C4: with one caller, in every state the ids of the posts List returns are
\* the ids returned by Create minus the ids removed by a successful Delete,
\* and a List that has answered did so with 200 and exactly those ids.
C4_ListCompleteness ==
    /\ IdsOf({ Post(p) : p \in list_posts(posts) }) = created \ deleted
    /\ last.op = "list" => (last.status = 200 /\ IdsOf(last.list) = created \ deleted)

\* C4 witness: a List has answered with some posts after some were deleted.
C4_Witness == last.op = "list" /\ last.list # {} /\ deleted # {}

\* C5: a Read of an id whose record was written by Create and not updated or
\* deleted since answers 200 with the post that Create returned, which has the
\* author, date and content given to Create.
C5_RoundTrip ==
    (last.op = "get" /\ written[last.id].by = "create") =>
        /\ last.status = 200
        /\ last.post = written[last.id].ret
        /\ last.post = Asked(last.id, written[last.id].body)

\* C5 witness: such a Read has answered.
C5_Witness == last.op = "get" /\ last.status = 200 /\ written[last.id].by = "create"

\* C6: an Update with a well-formed body of an id that is present returns a
\* post with the id of the path and exactly the author, date and content of
\* its body, and the record stored under the id is then that post.
C6_UpdateReplaces ==
    (last.op = "update" /\ last.input = "good" /\ last.present) =>
        /\ last.status = 200
        /\ written[last.id].by = "update"
        /\ last.post = Asked(last.id, written[last.id].body)
        /\ last.id \in DOMAIN posts
        /\ posts[last.id] = last.post

\* C6 witness: an Update has replaced a record that held another author and
\* content.
C6_Witness ==
    /\ last.op = "update" /\ last.status = 200 /\ last.changed
    /\ last.post.author = "" /\ last.post.content = "bye"
    /\ posts[last.id] = last.post

\* C7: an Update with a well-formed body on an id that is not present answers
\* NotFound (404) and its step leaves the store as it was.
C7_NoUpsert ==
    (last.op = "update" /\ last.input = "good" /\ ~last.present) =>
        (last.status = 404 /\ ~last.changed /\ last.id \notin DOMAIN posts)

\* C7 witness: an Update on an absent id answered 404 while the store held
\* other records.
C7_Witness ==
    /\ last.op = "update" /\ last.status = 404 /\ ~last.present
    /\ posts # <<>>

\* C8: a Create or an Update with a malformed body ends in InvalidInput (422)
\* and the store after it is the store before it.
C8_InvalidInputNoStoreCall ==
    (last.op \in {"create", "update"} /\ last.input = "bad") =>
        (last.status = 422 /\ ~last.changed /\ last.post = NoPost)

\* C8 witness: a Create was rejected with 422 while the store held records.
C8_Witness ==
    last.op = "create" /\ last.input = "bad" /\ last.status = 422 /\ posts # <<>>

\* C9: an Update with a malformed body on an id that is not present signals
\* InvalidInput (422), not NotFound (404).
C9_ValidationBeforeExistence ==
    (last.op = "update" /\ last.input = "bad" /\ ~last.present) => last.status = 422

\* C9 witness: an Update on an absent id was rejected with 422.
C9_Witness ==
    last.op = "update" /\ last.input = "bad" /\ ~last.present /\ last.status = 422

\* C10: the record stored under an id is, at every moment, the author, date
\* and content of the body of one call, the Create or Update that wrote it.
C10_NoTornRecord ==
    \A id \in DOMAIN posts :
        /\ written[id].by \in {"create", "update"}
        /\ written[id].body \in GoodBodies
        /\ posts[id] = Asked(id, written[id].body)

\* C10 witness: an Update has written a record while another Update of the
\* same id, with the other body, is between its check and its write.
C10_Witness ==
    \E t \in Threads :
        /\ pc[t] = "update_store"
        /\ local[t].id \in DOMAIN posts
        /\ written[local[t].id].by = "update"
        /\ written[local[t].id].body # local[t].body

\* C11: a Read or a List, also one that runs while an Update or a Delete of
\* the same id is between its steps, returns for each record a whole record:
\* the four fields are those of one call, the Create or Update whose write
\* the read came after.
C11_ReadsSeeWholeRecords ==
    /\ (last.op = "get" /\ last.status = 200) =>
          /\ written[last.id].by \in {"create", "update"}
          /\ last.post = Asked(last.id, written[last.id].body)
    /\ last.op = "list" =>
          \A p \in last.list :
             /\ p.id \in Ids
             /\ written[p.id].by \in {"create", "update"}
             /\ p = Asked(p.id, written[p.id].body)

\* C11 witness: a List has returned a record, written by an Update, while
\* another Update of the same id with the other body is between its check
\* and its write.
C11_Witness ==
    /\ last.op = "list"
    /\ \E p \in last.list, t \in Threads :
          /\ pc[t] = "update_store" /\ local[t].id = p.id
          /\ written[p.id].by = "update"
          /\ local[t].body # written[p.id].body

\* C12: a Read, an Update with a well-formed body and a Delete signal NotFound
\* (404) exactly when the id is not in the store when they look it up, and
\* Delete succeeds (204) exactly when it was.
C12_NotFoundIffAbsent ==
    (\/ last.op \in {"get", "delete"}
     \/ last.op = "update" /\ last.input = "good") =>
        /\ last.status = 404 <=> ~last.present
        /\ last.op = "delete" => (last.status = 204 <=> last.present)
        /\ last.op = "delete" => (last.changed <=> last.present)

\* C12 witness: a Delete of a present id has succeeded and removed it while
\* the store keeps another record.
C12_Witness ==
    /\ last.op = "delete" /\ last.status = 204 /\ last.present
    /\ last.id \notin DOMAIN posts /\ posts # <<>>

\* C13: the store holds at most one record per id, and the record under key k
\* has id k.
C13_OneRecordPerId ==
    /\ \A k \in DOMAIN posts : posts[k].id = k
    /\ \A p, q \in list_posts(posts) : p.id = q.id => p = q
    /\ Cardinality(list_posts(posts)) = Cardinality(DOMAIN posts)

\* C13 witness: the store holds two records, one of them written by an Update.
C13_Witness ==
    /\ Cardinality(DOMAIN posts) >= 2
    /\ \E k \in DOMAIN posts : written[k].by = "update"

\* C14: a Create with a well-formed body ends with 201, never an error; the
\* step that stores its post returns the post with the author, date and
\* content of the body under an id that was not in the store, and the store
\* afterwards holds the records it held, unchanged, plus that one.
C14_CreateSucceeds ==
    [][/\ (last'.op = "create" /\ last'.input = "good") => last'.status = 201
       /\ \A t \in Threads : CreatePostStore(t) =>
            LET id == local[t].id IN
            /\ local[t].body \in GoodBodies
            /\ id \notin DOMAIN posts
            /\ last'.op = "create" /\ last'.status = 201 /\ last'.id = id
            /\ last'.post = Asked(id, local[t].body)
            /\ DOMAIN posts' = DOMAIN posts \cup {id}
            /\ posts'[id] = last'.post
            /\ \A k \in DOMAIN posts : posts'[k] = posts[k]]_vars

\* C14 witness: a Create has returned its post and the store holds it next to
\* a record that was there before.
C14_Witness ==
    /\ last.op = "create" /\ last.status = 201 /\ last.changed
    /\ last.id \in DOMAIN posts
    /\ \E k \in DOMAIN posts : k # last.id

\* C15 as stated: the author of every post held by the store is non-empty.
C15_AuthorNonEmpty == \A k \in DOMAIN posts : posts[k].author # ""

\* C15, amended: the author of every post held by the store is the JSON
\* string, possibly empty, that the body of the Create or Update that wrote
\* it gave as author.
C15_AuthorIsText ==
    \A k \in DOMAIN posts :
        /\ written[k].body.author.type = "string"
        /\ posts[k].author = written[k].body.author.val

\* C15 witness: a Create with the empty string as author has put its post
\* into the store.
C15_Witness ==
    \E k \in DOMAIN posts :
        /\ written[k].by = "create"
        /\ written[k].body.author = Str("")
        /\ posts[k].author = ""

\* C16: every step changes the entry of at most one id, and only as the
\* completing step of a Create, an Update or a Delete of that id: List and
\* Read change nothing, Update(id) and Delete(id) leave every other id's
\* record as it was, Create leaves every record that existed as it was.
C16_FrameEffect ==
    [][LET T == { k \in Ids : Entry(posts', k) # Entry(posts, k) } IN
         /\ DOMAIN posts' \subseteq Ids
         /\ Cardinality(T) <= 1
         /\ T # {} => (last'.op \in {"create", "update", "delete"} /\ T = {last'.id})
         /\ last'.op = "create" => \A k \in DOMAIN posts : Entry(posts', k) = posts[k]]_vars

\* C16 witness: a Delete has removed one record and the store still holds
\* another, written before it.
C16_Witness ==
    /\ last.op = "delete" /\ last.changed
    /\ \E k \in DOMAIN posts : k # last.id

\* C17: under fair scheduling of the threads, an operation that has started
\* completes, whatever the other thread does: no operation waits for another.
C17_OperationsComplete ==
    \A t \in Threads : (pc[t] # "idle") ~> (pc[t] = "idle")

\* C17 witness: both threads are between the two steps of an operation on
\* the same id, one of which has to complete before the other.
C17_Witness ==
    /\ \A t \in Threads : pc[t] = "update_store"
    /\ \A t, u \in Threads : local[t].id = local[u].id

====
